---- MODULE Spec2Model ----
(***************************************************************************)
(* NexusBuy API: the read-through analytics cache of backend/src/main.py   *)
(* (get_store_sales_ranking, get_delivery_times, get_popular_products and  *)
(* the three cache invalidation endpoints) over the Redis adapter of       *)
(* backend/src/database/redis_adapter.py.                                  *)
(*                                                                         *)
(* Strings that take part in key construction are modelled as the sequence *)
(* of their ':'-separated segments, so "store_sales_ranking:CO:timestamp"  *)
(* is <<"store_sales_ranking", "CO", "timestamp">> and f"{a}:{b}" is the   *)
(* concatenation a \o b.  Python values and JSON texts are tagged trees.   *)
(* Every request is one process; each blocking adapter call is one step.   *)
(***************************************************************************)
EXTENDS Integers, Sequences, FiniteSets, TLC

(* ------------------------------ bounds --------------------------------- *)
\* requests started in one behaviour
MaxOps == 2
\* clock advances in one behaviour
MaxTicks == 1

\* the request handlers (worker threads) that run concurrently
Procs == {1, 2}

\* request regions: a plain one and one whose last segment is "timestamp"
Regions == { <<"CO">>, <<"CO", "timestamp">> }

\* amounts of time (seconds) the clock may advance by between two steps
Deltas == { 86400, 2592000 }

(* --------------------------- Python values ------------------------------ *)
PyInt(n)     == [kind |-> "int", val |-> n]
PyFloat(n)   == [kind |-> "float", val |-> n]
PyDecimal(n) == [kind |-> "Decimal", val |-> n]
PyBool(b)    == [kind |-> "bool", val |-> b]
PyStr(s)     == [kind |-> "str", val |-> s]
PyList(s)    == [kind |-> "list", val |-> s]
PyDict(d)    == [kind |-> "dict", val |-> d]
PyNone       == [kind |-> "NoneType", val |-> 0]
\* a local name that has not been assigned yet
Unbound      == [kind |-> "unbound", val |-> 0]

\* Python truthiness of a value, as `if x:` evaluates it
Truthy(x) ==
    CASE x.kind = "NoneType" -> FALSE
      [] x.kind = "bool"     -> x.val
      [] x.kind \in {"int", "float", "Decimal"} -> x.val # 0
      [] x.kind = "str"      -> x.val # <<>> /\ x.val # <<"">>
      [] x.kind = "list"     -> x.val # <<>>
      [] x.kind = "dict"     -> DOMAIN x.val # {}
      [] OTHER               -> TRUE

\* dict.get(key, default)
DictGet(d, key, default) == IF key \in DOMAIN d.val THEN d.val[key] ELSE default

\* does a Decimal occur anywhere in the value
RECURSIVE HasDecimal(_)
HasDecimal(obj) ==
    IF obj.kind \in {"list", "dict"}
    THEN \E k \in DOMAIN obj.val : HasDecimal(obj.val[k])
    ELSE obj.kind = "Decimal"

(* ------------------------ numeric normalization ------------------------- *)
\* convert_decimals nested in get_store_sales_ranking
RECURSIVE ranking_convert_decimals(_)
ranking_convert_decimals(obj) ==
    IF obj.kind = "list"
    THEN PyList([i \in DOMAIN obj.val |-> ranking_convert_decimals(obj.val[i])])
    ELSE IF obj.kind = "dict"
    THEN PyDict([k \in DOMAIN obj.val |-> ranking_convert_decimals(obj.val[k])])
    ELSE IF obj.kind = "Decimal"
    THEN PyFloat(obj.val)
    ELSE obj

\* convert_decimals nested in get_delivery_times
RECURSIVE delivery_convert_decimals(_)
delivery_convert_decimals(obj) ==
    IF obj.kind = "list"
    THEN PyList([i \in DOMAIN obj.val |-> delivery_convert_decimals(obj.val[i])])
    ELSE IF obj.kind = "dict"
    THEN PyDict([k \in DOMAIN obj.val |-> delivery_convert_decimals(obj.val[k])])
    ELSE IF obj.kind = "Decimal"
    THEN PyFloat(obj.val)
    ELSE obj

\* convert_decimals at module level
RECURSIVE convert_decimals(_)
\* (mutation) the values of a dict are not walked
convert_decimals_shallow(obj) ==
    IF obj.kind = "list"
    THEN PyList([i \in DOMAIN obj.val |-> convert_decimals(obj.val[i])])
    ELSE IF obj.kind = "Decimal"
    THEN PyFloat(obj.val)
    ELSE obj
\* (mutation) every number is narrowed one step: a float becomes an int
convert_decimals_narrowing(obj) ==
    IF obj.kind = "list"
    THEN PyList([i \in DOMAIN obj.val |-> convert_decimals(obj.val[i])])
    ELSE IF obj.kind = "dict"
    THEN PyDict([k \in DOMAIN obj.val |-> convert_decimals(obj.val[k])])
    ELSE IF obj.kind = "Decimal"
    THEN PyFloat(obj.val)
    ELSE IF obj.kind = "float"
    THEN PyInt(obj.val)
    ELSE obj
convert_decimals(obj) ==
    IF obj.kind = "list"
    THEN PyList([i \in DOMAIN obj.val |-> convert_decimals(obj.val[i])])
    ELSE IF obj.kind = "dict"
    THEN PyDict([k \in DOMAIN obj.val |-> convert_decimals(obj.val[k])])
    ELSE IF obj.kind = "Decimal"
    THEN PyFloat(obj.val)
    ELSE obj

(* ------------------------------- JSON ----------------------------------- *)
\* json.dumps raises TypeError on a value it has no encoding for
JsonSerializable(obj) == ~HasDecimal(obj)

\* json.dumps: the JSON text, as the tree of its tokens
RECURSIVE json_dumps(_)
json_dumps(obj) ==
    CASE obj.kind = "list"     -> [kind |-> "array",
                                   val |-> [i \in DOMAIN obj.val |-> json_dumps(obj.val[i])]]
      [] obj.kind = "dict"     -> [kind |-> "object",
                                   val |-> [k \in DOMAIN obj.val |-> json_dumps(obj.val[k])]]
      [] obj.kind = "int"      -> [kind |-> "integer_literal", val |-> obj.val]
      [] obj.kind = "float"    -> [kind |-> "fraction_literal", val |-> obj.val]
      [] obj.kind = "str"      -> [kind |-> "string", val |-> obj.val]
      [] obj.kind = "bool"     -> [kind |-> "boolean", val |-> obj.val]
      [] obj.kind = "NoneType" -> [kind |-> "null", val |-> 0]

\* json.loads
RECURSIVE json_loads(_)
json_loads(text) ==
    CASE text.kind = "array"  -> PyList([i \in DOMAIN text.val |-> json_loads(text.val[i])])
      [] text.kind = "object" -> PyDict([k \in DOMAIN text.val |-> json_loads(text.val[k])])
      [] text.kind = "integer_literal"  -> PyInt(text.val)
      [] text.kind = "fraction_literal" -> PyFloat(text.val)
      [] text.kind = "string"  -> PyStr(text.val)
      [] text.kind = "boolean" -> PyBool(text.val)
      [] text.kind = "null"    -> PyNone

(* ------------------------------- Redis ---------------------------------- *)
\* The keyspace is a function from the keys present to [val, exp]; exp is
\* the instant the key expires at, or NoExpiry for a key without a TTL.
NoExpiry == -1

\* the reply of GET for a key that is not there
Nil == [kind |-> "nil", val |-> 0]

\* (mutation) SET NX: a key that exists keeps its value
client_set_nx(c, key, serialized) ==
    [k \in DOMAIN c \cup {key} |->
        IF k = key /\ k \notin DOMAIN c THEN [val |-> serialized, exp |-> NoExpiry]
        ELSE c[k]]

\* SET key value: replaces the value and discards any TTL the key had
client_set(c, key, serialized) ==
    [k \in DOMAIN c \cup {key} |->
        IF k = key THEN [val |-> serialized, exp |-> NoExpiry] ELSE c[k]]

\* EXPIRE key ttl: no effect on a missing key
client_expire(c, key, ttl, t) ==
    [k \in DOMAIN c |-> IF k = key THEN [c[k] EXCEPT !.exp = t + ttl] ELSE c[k]]

\* GET key
client_get(c, key) == IF key \in DOMAIN c THEN c[key].val ELSE Nil

\* EXISTS key: the number of keys found
client_exists(c, key) == IF key \in DOMAIN c THEN 1 ELSE 0

\* (mutation) the pattern matches every key
client_keys_any(c, table) == DOMAIN c

\* KEYS pattern, for a pattern of the form "<table>:*"
client_keys(c, table) ==
    { k \in DOMAIN c : Len(k) > Len(table) /\ SubSeq(k, 1, Len(table)) = table }

\* (mutation) only the first of the keys is deleted
client_delete_one(c, ks) ==
    IF ks = {} THEN c
    ELSE LET k1 == CHOOSE k \in ks : \A k2 \in ks : Len(k) <= Len(k2)
         IN  [k \in DOMAIN c \ {k1} |-> c[k]]

\* DEL key [key ...]
client_delete(c, ks) == [k \in DOMAIN c \ ks |-> c[k]]

\* keys whose TTL has run out at instant t are gone
Expire(c, t) ==
    [k \in { x \in DOMAIN c : c[x].exp = NoExpiry \/ c[x].exp > t } |-> c[k]]

\* RedisAdapter.key_exists
key_exists(c, key) == client_exists(c, key) > 0

\* (mutation) the truth test is made on the decoded value, not on the text
get_value_decoded_test(c, key) ==
    LET value == client_get(c, key)
    IN  IF value # Nil /\ Truthy(json_loads(value)) THEN json_loads(value) ELSE PyNone

\* (mutation) the stored text is returned without json.loads
get_value_raw(c, key) == client_get(c, key)

\* RedisAdapter.get_value
get_value(c, key) ==
    LET value == client_get(c, key)
    IN  IF value # Nil THEN json_loads(value) ELSE PyNone

(* --------------------------- the endpoints ------------------------------ *)
Analytics == {"get_store_sales_ranking", "get_delivery_times", "get_popular_products"}
Invalidations == {"clear_all_delivery_times_cache", "clear_popular_cache",
                  "clear_store_sales_cache"}

\* (mutation) popular products share the prefix of the ranking
prefix_shared(op) ==
    CASE op = "get_store_sales_ranking" -> <<"store_sales_ranking">>
      [] op = "get_delivery_times"      -> <<"delivery_times">>
      [] op = "get_popular_products"    -> <<"store_sales_ranking">>

\* the query-type prefix of an analytics endpoint's cache key
prefix(op) ==
    CASE op = "get_store_sales_ranking" -> <<"store_sales_ranking">>
      [] op = "get_delivery_times"      -> <<"delivery_times">>
      [] op = "get_popular_products"    -> <<"popular_products">>

\* cache_key = f"<query type>:{region}"
cache_key(op, region) == prefix(op) \o region

\* (mutation) the timestamp goes under the data key itself
timestamp_key_same(key) == key

\* f"{cache_key}:timestamp"
timestamp_key(key) == key \o <<"timestamp">>

\* (mutation) popular products cached for 30 days like the others
ttl_seconds_month(op) == 60 * 60 * 24 * 30

\* the ttl handed to set_value
ttl_seconds(op) ==
    CASE op = "get_store_sales_ranking" -> 60 * 60 * 24 * 30
      [] op = "get_delivery_times"      -> 60 * 60 * 24 * 30
      [] op = "get_popular_products"    -> 86400

\* the "<table>" arguments an invalidation endpoint deletes by, in order
tables(op) ==
    CASE op = "clear_all_delivery_times_cache" -> << <<"delivery_times">> >>
      [] op = "clear_popular_cache"     -> << <<"popular_products">>,
                                              <<"popular_products", "timestamp">> >>
      [] op = "clear_store_sales_cache" -> << <<"store_sales_ranking">>,
                                              <<"store_sales_ranking", "timestamp">> >>

\* the analytics endpoint whose entries an invalidation endpoint clears
cleared(op) ==
    CASE op = "clear_all_delivery_times_cache" -> "get_delivery_times"
      [] op = "clear_popular_cache"     -> "get_popular_products"
      [] op = "clear_store_sales_cache" -> "get_store_sales_ranking"

\* datetime.now().isoformat() at instant t
isoformat(t) == PyStr(<<ToString(t)>>)

(* ---------------------------- origin data ------------------------------- *)
\* rows of the store sales aggregation: id, store, SUM(...) AS store_sales
RankingRow(sales) ==
    PyDict([id |-> PyInt(1), store |-> PyStr(<<"s1">>), store_sales |-> PyDecimal(sales)])

\* rows of the popular products aggregation
ProductRow(id, price, region) ==
    PyDict([id |-> PyInt(id), title |-> PyStr(<<"t">>), price |-> price,
            region |-> PyStr(region), total_sold |-> PyInt(3)])

\* what postgres_adapter.execute_raw may return for an endpoint's query
OriginResults(op, region) ==
    CASE op = "get_store_sales_ranking" ->
            { PyList(<<>>), PyList(<<RankingRow(5)>>) }
      [] op = "get_delivery_times" ->
            { PyList(<<>>),
              PyList(<<PyDict([delivery_hours |-> PyDecimal(24), shipments |-> PyInt(2)])>>) }
      [] op = "get_popular_products" ->
            { PyList(<<>>),
              PyList(<<ProductRow(1, PyInt(1000), region), ProductRow(2, PyInt(1000), region)>>),
              PyList(<<ProductRow(1, PyDecimal(1000), region)>>) }

\* what mongo_client.find_one("products", {"_id": ..., "region": ...}) may return
Documents ==
    { PyNone,
      PyDict([images |-> PyList(<<PyDict([url |-> PyStr(<<"u1">>)])>>)]),
      PyDict([discount |-> PyDict([isActive |-> PyBool(TRUE), percentage |-> PyInt(20)])]),
      PyDict([discount |-> PyDict([isActive |-> PyBool(FALSE), percentage |-> PyInt(20)])]) }

(* ---------------------- popular products enrichment --------------------- *)
\* price * (1 - percentage / 100) is evaluated in IEEE-754 double arithmetic.
\* For the price of the rows used here (1000) these are the integer
\* percentages in 0..100 at which the double product falls just below the
\* exact value, which is an integer: 1 - 7 / 100 is 0.9299999999999999 and
\* 1000 * (1 - 7 / 100) is 929.9999999999999.
BelowExact ==
    {7, 32, 33, 34, 54, 55, 56, 66, 67, 68, 77, 78, 79, 80, 81, 89, 90, 91, 92, 93}

discounted(price, percentage) ==
    PyInt(((price.val * (100 - percentage.val)) \div 100)
          - (IF percentage.val \in BelowExact THEN 1 ELSE 0))

\* doc["images"][0].get("url") when the document lists an image
first_image(doc) ==
    IF /\ Truthy(doc)
       /\ DictGet(doc, "images", PyNone).kind = "list"
       /\ Truthy(doc.val.images)
    THEN DictGet(doc.val.images.val[1], "url", PyNone)
    ELSE PyNone

\* the local `discount` after `if doc and "discount" in doc: discount = ...`
bind_discount(doc, discount) ==
    IF Truthy(doc) /\ "discount" \in DOMAIN doc.val THEN doc.val.discount ELSE discount

\* One pass of the loop body for `product` with the looked-up `doc`; the
\* local `discount` is whatever an earlier pass left in it.  exc names the
\* exception the pass raises, "" when it appends `item`.
enrich(product, doc, discount) ==
    LET d     == bind_discount(doc, discount)
        price == product.val.price
        item(dp) == PyDict([id |-> product.val.id, title |-> product.val.title,
                            price |-> price, discounted_price |-> dp,
                            total_sold |-> product.val.total_sold,
                            image |-> first_image(doc)])
    IN  IF d = Unbound
        THEN [exc |-> "UnboundLocalError", discount |-> d, item |-> PyNone]
        ELSE IF ~Truthy(DictGet(d, "isActive", PyNone))
        THEN [exc |-> "", discount |-> d, item |-> item(price)]
        ELSE IF price.kind = "Decimal"
        THEN [exc |-> "TypeError", discount |-> d, item |-> PyNone]
        ELSE [exc |-> "", discount |-> d,
              item |-> item(discounted(price, DictGet(d, "percentage", PyInt(0))))]

(* ------------------------------- state ---------------------------------- *)
VARIABLES
    cache,      \* the Redis keyspace
    now,        \* the wall clock, in seconds
    ticks,      \* clock advances so far
    started,    \* requests started so far
    pc,         \* per handler: the adapter call it is about to make, or "idle"
    loc,        \* per handler: the locals of the endpoint function
    out,        \* the request that ended in the last step, with its response
    \* history variables, read by the properties only
    hist,       \* per handler, for its current request: the keys it has SET,
                \* the <<key, ttl>> pairs it has EXPIREd, the call that raised,
                \* the timestamp it has SET
    since,      \* per invalidation: keys others have SET since it first listed keys
    written,    \* per key: when the last set_value on it returned, and its ttl
    setter,     \* per key: the handler of the last SET on it, and the key it serves
    seq         \* monitor of two consecutive requests for one key

vars == <<cache, now, ticks, started, pc, loc, out, hist, since, written, setter, seq>>

NoLocals == [op |-> "none", region |-> <<>>, cache_key |-> <<>>, result |-> PyNone,
             i |-> 0, discount |-> Unbound, result_with_images |-> <<>>,
             now_iso |-> PyNone, keys |-> {}, todo |-> <<>>]

NoHist == [sets |-> {}, expires |-> {}, raised |-> "", stamp |-> PyNone, inserts |-> {},
           lookups |-> <<>>, deleted |-> {}]
NoOut == [p |-> 0]
NoSeq == [stage |-> 0, p |-> 0, op |-> "none", region |-> <<>>, data |-> PyNone]

\* a dict returned by an endpoint function
Ok(body) == [status |-> 200, body |-> body]
\* an exception that leaves the endpoint function
InternalServerError == [status |-> 500, body |-> [detail |-> "Internal Server Error"]]

Init ==
    /\ cache = [k \in {} |-> Nil]
    /\ now = 0
    /\ ticks = 0
    /\ started = 0
    /\ pc = [p \in Procs |-> "idle"]
    /\ loc = [p \in Procs |-> NoLocals]
    /\ out = NoOut
    /\ hist = [p \in Procs |-> NoHist]
    /\ since = [p \in Procs |-> {}]
    /\ written = [k \in {} |-> 0]
    /\ setter = [k \in {} |-> 0]
    /\ seq = NoSeq

(* ------------------------- request life cycle --------------------------- *)
\* a request arrives at handler p: the endpoint function starts with `locals`
\* and runs up to its first adapter call `first`
Begin(p, first, locals) ==
    /\ pc[p] = "idle"
    /\ started < MaxOps
    /\ started' = started + 1
    /\ pc' = [pc EXCEPT ![p] = first]
    /\ loc' = [loc EXCEPT ![p] = locals]
    /\ out' = NoOut
    /\ since' = [since EXCEPT ![p] = {}]
    /\ UNCHANGED <<cache, now, ticks, hist, written, setter>>

\* p goes on to its next adapter call
Goto(p, next) ==
    /\ pc' = [pc EXCEPT ![p] = next]
    /\ out' = NoOut

\* the request of p ends with `response`; h is its history
Finish(p, response, h) ==
    /\ pc' = [pc EXCEPT ![p] = "idle"]
    /\ loc' = [loc EXCEPT ![p] = NoLocals]
    /\ hist' = [hist EXCEPT ![p] = NoHist]
    /\ out' = [p |-> p, op |-> loc[p].op, region |-> loc[p].region,
               cache_key |-> loc[p].cache_key, response |-> response,
               raised |-> h.raised, sets |-> h.sets, expires |-> h.expires,
               stamp |-> h.stamp, inserts |-> h.inserts, lookups |-> h.lookups,
               deleted |-> h.deleted]

\* the endpoint function returns `body`
Return(p, body, h) == Finish(p, Ok(body), h)

\* the calls that talk to Redis, PostgreSQL or MongoDB
CacheReads == {"key_exists", "get_value"}
OriginCalls == {"execute_raw", "find_one"}
CacheWrites == {"set_value:set", "set_value:expire",
                "set_value_timestamp:set", "set_value_timestamp:expire"}
AdapterCalls == CacheReads \cup OriginCalls \cup CacheWrites \cup {"keys", "delete"}

(* ------------------------ analytics endpoints --------------------------- *)
\* (mutation) the cached response carries a cached_at field too
HitBodyStamped(region, data) ==
    [source |-> "redis", region |-> region, cached_at |-> PyNone, data |-> data]

\* {"source": "redis", "region": region, "data": ...}
HitBody(region, data) == [source |-> "redis", region |-> region, data |-> data]

\* {"source": "postgresql", "region": ..., "cached_at": ..., "data": ...}
MissBody(region, at, data) ==
    [source |-> "postgresql", region |-> region, cached_at |-> at, data |-> data]

\* the value the miss path hands to set_value(cache_key, ...)
payload(p) ==
    IF loc[p].op = "get_popular_products"
    THEN PyList(loc[p].result_with_images)
    ELSE loc[p].result

\* the timestamp written under f"{cache_key}:timestamp"
timestamp_value(p) ==
    IF loc[p].op = "get_popular_products" THEN isoformat(now) ELSE loc[p].now_iso

\* the "cached_at" of the origin response
cached_at(p) ==
    IF loc[p].op = "get_popular_products" THEN isoformat(now) ELSE loc[p].now_iso

\* (mutation) a failed document lookup ends the loop and what has been
\* built so far is cached
PropagateKeepPartial(p, call) ==
    IF call = "find_one"
    THEN /\ Goto(p, "set_value:set")
         /\ loc' = loc
         /\ hist' = [hist EXCEPT ![p].raised = call]
    ELSE Finish(p, InternalServerError, [hist[p] EXCEPT !.raised = call])

\* (mutation) an exception of a cache write is caught and ignored
PropagateSwallowWrite(p, call) ==
    IF call \in CacheWrites
    THEN Return(p, MissBody(loc[p].region, cached_at(p), payload(p)),
                [hist[p] EXCEPT !.raised = call])
    ELSE Finish(p, InternalServerError, [hist[p] EXCEPT !.raised = call])

\* an exception raised by `call` is not caught in the endpoint function
Propagate(p, call) == Finish(p, InternalServerError, [hist[p] EXCEPT !.raised = call])

\* the store behind the call p is about to make fails: the call raises
Raises(p) ==
    /\ pc[p] \in AdapterCalls
    /\ Propagate(p, pc[p])
    /\ UNCHANGED <<cache, now, ticks, started, since, written, setter>>

\* lines up to the existence check: cache_key (and ttl_seconds) are set
Enter(p, op, region) ==
    Begin(p, "key_exists", [NoLocals EXCEPT !.op = op, !.region = region,
                                            !.cache_key = cache_key(op, region)])

get_store_sales_ranking(p, region) == Enter(p, "get_store_sales_ranking", region)
get_delivery_times(p, region) == Enter(p, "get_delivery_times", region)
get_popular_products(p, region) == Enter(p, "get_popular_products", region)

\* if redis_pool.key_exists(cache_key):
CheckCache(p) ==
    /\ pc[p] = "key_exists"
    /\ Goto(p, IF key_exists(cache, loc[p].cache_key) THEN "get_value" ELSE "execute_raw")
    /\ UNCHANGED <<cache, now, ticks, started, loc, hist, since, written, setter>>

\* (mutation) reading the entry starts its TTL again
ReadCacheTouch(p) ==
    /\ pc[p] = "get_value"
    /\ Return(p, HitBody(loc[p].region, get_value(cache, loc[p].cache_key)), hist[p])
    /\ cache' = client_expire(cache, loc[p].cache_key, ttl_seconds(loc[p].op), now)
    /\ UNCHANGED <<now, ticks, started, since, written, setter>>

\* return {..., "data": redis_pool.get_value(cache_key)}
ReadCache(p) ==
    /\ pc[p] = "get_value"
    /\ Return(p, HitBody(loc[p].region, get_value(cache, loc[p].cache_key)), hist[p])
    /\ UNCHANGED <<cache, now, ticks, started, since, written, setter>>

\* the lines between execute_raw and the first set_value (or the loop)
normalize(op, rows) ==
    CASE op = "get_store_sales_ranking" -> ranking_convert_decimals(rows)
      [] op = "get_delivery_times"      -> delivery_convert_decimals(rows)
      [] op = "get_popular_products"    -> rows

\* result = postgres_adapter.execute_raw(query, params={"region": region})
Query(p) ==
    /\ pc[p] = "execute_raw"
    /\ \E rows \in OriginResults(loc[p].op, loc[p].region) :
         IF loc[p].op = "get_popular_products"
         THEN /\ loc' = [loc EXCEPT ![p].result = normalize(loc[p].op, rows), ![p].i = 1]
              /\ Goto(p, IF rows.val = <<>> THEN "set_value:set" ELSE "find_one")
         ELSE /\ loc' = [loc EXCEPT ![p].result = normalize(loc[p].op, rows),
                                    ![p].now_iso = isoformat(now)]
              /\ Goto(p, "set_value:set")
    /\ UNCHANGED <<cache, now, ticks, started, hist, since, written, setter>>

\* (mutation) the document is looked up by id alone
lookup_filter_unscoped(product, region) == PyDict([_id |-> product.val.id])

\* {"_id": product_id, "region": region}
lookup_filter(product, region) ==
    PyDict([_id |-> product.val.id, region |-> PyStr(region)])

\* history: the filter of one more find_one
Looked(h, product, region) ==
    [h EXCEPT !.lookups = Append(@, lookup_filter(product, region))]

\* one pass of `for product in result:` of get_popular_products
Enrich(p) ==
    /\ pc[p] = "find_one"
    /\ \E doc \in Documents :
         LET product == loc[p].result.val[loc[p].i]
             pass == enrich(product, doc, loc[p].discount)
             h == Looked(hist[p], product, loc[p].region)
         IN  IF pass.exc # ""
             THEN Finish(p, InternalServerError, [h EXCEPT !.raised = pass.exc])
             ELSE /\ loc' = [loc EXCEPT
                        ![p].discount = pass.discount,
                        ![p].result_with_images = Append(@, pass.item),
                        ![p].i = @ + 1]
                  /\ Goto(p, IF loc[p].i = Len(loc[p].result.val)
                             THEN "set_value:set" ELSE "find_one")
                  /\ hist' = [hist EXCEPT ![p] = h]
    /\ UNCHANGED <<cache, now, ticks, started, since, written, setter>>

\* has the invalidation of handler q listed keys yet
Listed(q) ==
    /\ loc[q].op \in Invalidations
    /\ ~(pc[q] = "keys" /\ loc[q].todo = tables(loc[q].op))

\* history: a SET of `key` to `value` by p; stamp is the value p has SET
\* under f"{cache_key}:timestamp"
NoteSet(p, key, value) ==
    /\ hist' = [hist EXCEPT ![p].sets = @ \cup {key},
                            ![p].stamp = IF key = loc[p].cache_key \o <<"timestamp">>
                                         THEN value ELSE @]
    /\ since' = [q \in Procs |-> IF q # p /\ Listed(q) THEN since[q] \cup {key}
                                                       ELSE since[q]]
    /\ written' = [k \in DOMAIN written \ {key} |-> written[k]]
    /\ setter' = [k \in DOMAIN setter \cup {key} |->
                    IF k = key THEN [by |-> p, for |-> loc[p].cache_key] ELSE setter[k]]

\* history: an EXPIRE of `key`, the last call of a set_value
Expired(h, key, ttl) == [h EXCEPT !.expires = @ \cup {<<key, ttl>>}]
NoteWritten(key, ttl) ==
    /\ written' = [k \in DOMAIN written \cup {key} |->
                     IF k = key THEN [at |-> now, ttl |-> ttl] ELSE written[k]]
    /\ UNCHANGED setter

\* RedisAdapter.set_value up to and including client.set
SetStep(p, key, value, next) ==
    IF ~JsonSerializable(value)
    THEN /\ Propagate(p, "json.dumps")
         /\ UNCHANGED <<cache, since, written, setter>>
    ELSE /\ cache' = client_set(cache, key, json_dumps(value))
         /\ Goto(p, next)
         /\ NoteSet(p, key, value)
         /\ UNCHANGED loc

\* (mutation) the TTL is never applied
set_value_no_expire(c, key, ttl, t) == c

\* RedisAdapter.set_value from `if ttl:` on
set_value_expire(c, key, ttl, t) == IF ttl # 0 THEN client_expire(c, key, ttl, t) ELSE c

\* redis_pool.set_value(cache_key, result, ttl=ttl_seconds), first half
WriteData(p) ==
    /\ pc[p] = "set_value:set"
    /\ SetStep(p, loc[p].cache_key, payload(p), "set_value:expire")
    /\ UNCHANGED <<now, ticks, started>>

\* second half
ExpireData(p) ==
    /\ pc[p] = "set_value:expire"
    /\ cache' = set_value_expire(cache, loc[p].cache_key, ttl_seconds(loc[p].op), now)
    /\ Goto(p, "set_value_timestamp:set")
    /\ hist' = [hist EXCEPT ![p] = Expired(@, loc[p].cache_key, ttl_seconds(loc[p].op))]
    /\ NoteWritten(loc[p].cache_key, ttl_seconds(loc[p].op))
    /\ UNCHANGED <<now, ticks, started, loc, since>>

\* redis_pool.set_value(f"{cache_key}:timestamp", ..., ttl=ttl_seconds), first half
WriteTimestamp(p) ==
    /\ pc[p] = "set_value_timestamp:set"
    /\ SetStep(p, timestamp_key(loc[p].cache_key), timestamp_value(p),
               "set_value_timestamp:expire")
    /\ UNCHANGED <<now, ticks, started>>

\* second half, and the return of the endpoint function
ExpireTimestamp(p) ==
    /\ pc[p] = "set_value_timestamp:expire"
    /\ cache' = set_value_expire(cache, timestamp_key(loc[p].cache_key),
                                 ttl_seconds(loc[p].op), now)
    /\ NoteWritten(timestamp_key(loc[p].cache_key), ttl_seconds(loc[p].op))
    /\ Return(p, MissBody(loc[p].region, cached_at(p), payload(p)),
              Expired(hist[p], timestamp_key(loc[p].cache_key), ttl_seconds(loc[p].op)))
    /\ UNCHANGED <<now, ticks, started, since>>

(* ----------------------- invalidation endpoints ------------------------- *)
Clear(p, op) == Begin(p, "keys", [NoLocals EXCEPT !.op = op, !.todo = tables(op)])

clear_all_delivery_times_cache(p) == Clear(p, "clear_all_delivery_times_cache")
clear_popular_cache(p) == Clear(p, "clear_popular_cache")
clear_store_sales_cache(p) == Clear(p, "clear_store_sales_cache")

\* the dict the invalidation endpoint returns
ClearedBody(op) == [message |-> op]

\* after one "<table>:*" has been dealt with: the next one, or return
NextTable(p, h) ==
    IF Len(loc[p].todo) > 1
    THEN /\ Goto(p, "keys")
         /\ loc' = [loc EXCEPT ![p].todo = Tail(@), ![p].keys = {}]
         /\ hist' = [hist EXCEPT ![p] = h]
    ELSE Return(p, ClearedBody(loc[p].op), h)

\* keys = client.keys(f"{table}:*"), and `if keys:`
ListKeys(p) ==
    /\ pc[p] = "keys"
    /\ LET keys == client_keys(cache, Head(loc[p].todo))
       IN  IF keys # {}
           THEN /\ loc' = [loc EXCEPT ![p].keys = keys]
                /\ Goto(p, "delete")
                /\ UNCHANGED hist
           ELSE NextTable(p, hist[p])
    /\ UNCHANGED <<cache, now, ticks, started, since, written, setter>>

\* client.delete(*keys)
DeleteKeys(p) ==
    /\ pc[p] = "delete"
    /\ cache' = client_delete(cache, loc[p].keys)
    /\ NextTable(p, [hist[p] EXCEPT !.deleted = @ \cup loc[p].keys])
    /\ UNCHANGED <<now, ticks, started, since, written, setter>>

(* -------------------------------- time ---------------------------------- *)
\* d seconds pass; keys whose TTL has run out disappear
Tick(d) ==
    /\ ticks < MaxTicks
    /\ ticks' = ticks + 1
    /\ now' = now + d
    /\ cache' = Expire(cache, now + d)
    /\ out' = NoOut
    /\ UNCHANGED <<started, pc, loc, hist, since, written, setter>>

(* ------------------- monitor of consecutive requests -------------------- *)
\* seq follows a request that runs with no step of another handler in
\* between (stage 1), its origin response while the entry stays in the cache
\* (stage 2), the next request for the same endpoint and region, again with
\* no step of another handler in between (stage 3), and its end (stage 4).
IsMiss(r) == r.status = 200 /\ "source" \in DOMAIN r.body /\ r.body.source = "postgresql"
IsHit(r) == r.status = 200 /\ "source" \in DOMAIN r.body /\ r.body.source = "redis"
IsCleared(r) == r.status = 200 /\ "message" \in DOMAIN r.body

SeqStart(p, op, region) ==
    seq' = IF seq.stage = 2 /\ seq.op = op /\ seq.region = region
           THEN [seq EXCEPT !.stage = 3, !.p = p]
           ELSE [stage |-> 1, p |-> p, op |-> op, region |-> region, data |-> PyNone]

SeqStep(p) ==
    seq' = IF seq.stage \in {1, 3} /\ seq.p = p
           THEN IF pc'[p] # "idle"
                THEN seq
                ELSE IF seq.stage = 3
                THEN [seq EXCEPT !.stage = 4]
                ELSE IF /\ IsMiss(out'.response)
                        /\ cache_key(seq.op, seq.region) \in DOMAIN cache'
                THEN [seq EXCEPT !.stage = 2, !.data = out'.response.body.data]
                ELSE NoSeq
           ELSE NoSeq

SeqTick ==
    seq' = IF seq.stage = 1
           THEN seq
           ELSE IF seq.stage \in {2, 3} /\ cache_key(seq.op, seq.region) \in DOMAIN cache'
           THEN seq
           ELSE NoSeq

(* --------------------------- specification ------------------------------ *)
StoreSalesRankingRequest ==
    \E p \in Procs, r \in Regions :
        get_store_sales_ranking(p, r) /\ SeqStart(p, "get_store_sales_ranking", r)
DeliveryTimesRequest ==
    \E p \in Procs, r \in Regions :
        get_delivery_times(p, r) /\ SeqStart(p, "get_delivery_times", r)
PopularProductsRequest ==
    \E p \in Procs, r \in Regions :
        get_popular_products(p, r) /\ SeqStart(p, "get_popular_products", r)
ClearDeliveryTimesRequest == \E p \in Procs : clear_all_delivery_times_cache(p) /\ seq' = NoSeq
ClearPopularRequest == \E p \in Procs : clear_popular_cache(p) /\ seq' = NoSeq
ClearStoreSalesRequest == \E p \in Procs : clear_store_sales_cache(p) /\ seq' = NoSeq
DoCheckCache == \E p \in Procs : CheckCache(p) /\ SeqStep(p)
DoReadCache == \E p \in Procs : ReadCache(p) /\ SeqStep(p)
DoQuery == \E p \in Procs : Query(p) /\ SeqStep(p)
DoEnrich == \E p \in Procs : Enrich(p) /\ SeqStep(p)
DoWriteData == \E p \in Procs : WriteData(p) /\ SeqStep(p)
DoExpireData == \E p \in Procs : ExpireData(p) /\ SeqStep(p)
DoWriteTimestamp == \E p \in Procs : WriteTimestamp(p) /\ SeqStep(p)
DoExpireTimestamp == \E p \in Procs : ExpireTimestamp(p) /\ SeqStep(p)
DoListKeys == \E p \in Procs : ListKeys(p) /\ SeqStep(p)
DoDeleteKeys == \E p \in Procs : DeleteKeys(p) /\ SeqStep(p)
DoRaise == \E p \in Procs : Raises(p) /\ SeqStep(p)
TimePasses == \E d \in Deltas : Tick(d) /\ SeqTick

Next ==
    \/ StoreSalesRankingRequest
    \/ DeliveryTimesRequest
    \/ PopularProductsRequest
    \/ ClearDeliveryTimesRequest
    \/ ClearPopularRequest
    \/ ClearStoreSalesRequest
    \/ DoCheckCache
    \/ DoReadCache
    \/ DoQuery
    \/ DoEnrich
    \/ DoWriteData
    \/ DoExpireData
    \/ DoWriteTimestamp
    \/ DoExpireTimestamp
    \/ DoListKeys
    \/ DoDeleteKeys
    \/ DoRaise
    \/ TimePasses

Spec == Init /\ [][Next]_vars

TypeOK ==
    /\ now >= 0
    /\ \A p \in Procs : pc[p] \in AdapterCalls \cup {"idle"}

(* ------------------ product pricing outside the cache ------------------- *)
\* An ISO date string "YYYY-MM-DD" is the sequence of its '-'-separated
\* fields, as numbers: "2026-11-04" is <<2026, 11, 4>>.
IsoDate(y, m, d) == PyStr(<<y, m, d>>)

\* days of month m (February of a year that is not a leap year)
DaysIn(m) == IF m = 2 THEN 28 ELSE IF m \in {4, 6, 9, 11} THEN 30 ELSE 31

\* does datetime.fromisoformat(text) accept the string
IsIsoDate(text) ==
    /\ text.kind = "str"
    /\ Len(text.val) = 3
    /\ text.val[2] \in 1..12
    /\ text.val[3] \in 1..DaysIn(text.val[2])

\* datetime.fromisoformat(text).date()
fromisoformat_date(text) ==
    [year |-> text.val[1], month |-> text.val[2], day |-> text.val[3]]

\* date.__le__
DateLE(a, b) ==
    \/ a.year < b.year
    \/ a.year = b.year /\ a.month < b.month
    \/ a.year = b.year /\ a.month = b.month /\ a.day <= b.day

\* the day after `date`
NextDay(date) ==
    IF date.day < DaysIn(date.month) THEN [date EXCEPT !.day = @ + 1]
    ELSE IF date.month < 12 THEN [date EXCEPT !.month = @ + 1, !.day = 1]
    ELSE [year |-> date.year + 1, month |-> 1, day |-> 1]

RECURSIVE AddDays(_, _)
AddDays(date, n) == IF n = 0 THEN date ELSE AddDays(NextDay(date), n - 1)

\* datetime.now().date() at instant t; instant 0 is in the day 2026-11-04
date_now(t) == AddDays([year |-> 2026, month |-> 11, day |-> 4], t \div 86400)

\* a discount sub-document with a validity window
Discount(active, percentage, start, end) ==
    PyDict([isActive |-> PyBool(active), percentage |-> PyInt(percentage),
            start_date |-> start, end_date |-> end])

\* product documents of the "products" collection: the ones of Documents,
\* and discounts with a window (November 2026, the single day 2026-11-04,
\* October 2026, one whose end_date is no date, and one that also has the
\* fields of models.Response.DiscountResponse)
CatalogDocuments ==
    Documents \cup
    { PyDict([discount |-> Discount(TRUE, pct, IsoDate(2026, 11, 1), IsoDate(2026, 11, 30))])
        : pct \in {0, 7, 20, 100} } \cup
    { PyDict([discount |-> Discount(TRUE, 20, IsoDate(2026, 11, 4), IsoDate(2026, 11, 4))]),
      PyDict([discount |-> Discount(TRUE, 20, IsoDate(2026, 10, 1), IsoDate(2026, 10, 31))]),
      PyDict([discount |-> Discount(FALSE, 20, IsoDate(2026, 11, 1), IsoDate(2026, 11, 30))]),
      PyDict([discount |-> Discount(TRUE, 20, IsoDate(2026, 11, 1), IsoDate(2026, 11, 31))]),
      PyDict([images |-> PyList(<<PyDict([url |-> PyStr(<<"u1">>)])>>),
              discount |-> PyDict([id |-> PyInt(9), is_active |-> PyBool(TRUE),
                                   isActive |-> PyBool(TRUE), percentage |-> PyInt(20),
                                   start_date |-> IsoDate(2026, 11, 1),
                                   end_date |-> IsoDate(2026, 11, 30)])]) }

\* the row get_product selects: p.id, p.title, p.price, p.region, ...
CatalogRow(price, region) ==
    PyDict([id |-> PyInt(1), title |-> PyStr(<<"t">>), price |-> price,
            region |-> PyStr(region), total_sold |-> PyInt(3)])

\* images = [{"id": idx, "url": img.get("url")} for ... if img.get("url")]
\* for a document listing at most one image
product_images(doc) ==
    IF Truthy(doc) /\ DictGet(doc, "images", PyNone).kind = "list"
    THEN IF Truthy(doc.val.images) /\ Truthy(DictGet(doc.val.images.val[1], "url", PyNone))
         THEN PyList(<<PyDict([id |-> PyInt(0), url |-> doc.val.images.val[1].val.url])>>)
         ELSE PyList(<<>>)
    ELSE PyList(<<>>)

\* (mutation) isActive is not looked at
discount_applies_inactive(discount, today) ==
    /\ "start_date" \in DOMAIN discount.val
    /\ "end_date" \in DOMAIN discount.val
    /\ DateLE(fromisoformat_date(discount.val.start_date), today)
    /\ DateLE(today, fromisoformat_date(discount.val.end_date))

\* the condition of the `if (...)` of get_product, when no operand raises
discount_applies(discount, today) ==
    /\ Truthy(DictGet(discount, "isActive", PyNone))
    /\ "start_date" \in DOMAIN discount.val
    /\ "end_date" \in DOMAIN discount.val
    /\ DateLE(fromisoformat_date(discount.val.start_date), today)
    /\ DateLE(today, fromisoformat_date(discount.val.end_date))

\* does evaluating that condition raise ValueError: the operands are
\* evaluated left to right, and end_date is parsed only when start <= now
condition_raises(discount, today) ==
    /\ Truthy(DictGet(discount, "isActive", PyNone))
    /\ "start_date" \in DOMAIN discount.val
    /\ "end_date" \in DOMAIN discount.val
    /\ \/ ~IsIsoDate(discount.val.start_date)
       \/ /\ DateLE(fromisoformat_date(discount.val.start_date), today)
          /\ ~IsIsoDate(discount.val.end_date)

\* get_product from `active_discounts = []` to the discounted price: exc
\* names the exception raised, "" when none is
product_pricing(product, mongo_doc, today) ==
    LET price == product.val.price
        plain == [exc |-> "", discounted_price |-> price, active_discounts |-> <<>>]
    IN  IF ~(Truthy(mongo_doc) /\ "discount" \in DOMAIN mongo_doc.val)
        THEN plain
        ELSE LET discount == mongo_doc.val.discount
             IN  IF condition_raises(discount, today)
                 THEN [exc |-> "ValueError", discounted_price |-> PyNone,
                       active_discounts |-> <<>>]
                 ELSE IF ~discount_applies(discount, today)
                 THEN plain
                 ELSE IF price.kind = "Decimal"
                 THEN [exc |-> "TypeError", discounted_price |-> PyNone,
                       active_discounts |-> <<discount>>]
                 ELSE [exc |-> "",
                       discounted_price |->
                           discounted(price, DictGet(discount, "percentage", PyInt(0))),
                       active_discounts |-> <<discount>>]

(* ------------------- endpoints outside the cache ------------------------ *)
\* raise HTTPException(status_code=..., detail=...)
HTTPException(status_code, detail) ==
    [type |-> "HTTPException", status_code |-> status_code, detail |-> detail]
\* any other exception
Error(type) == [type |-> type, status_code |-> 0, detail |-> type]

\* str(e): an HTTPException prints as "<status_code>: <detail>"
exception_str(e) ==
    IF e.type = "HTTPException" THEN ToString(e.status_code) \o ": " \o e.detail
    ELSE e.detail

\* the response FastAPI makes of an HTTPException that leaves the endpoint
HttpError(e) == [status |-> e.status_code, body |-> [detail |-> e.detail]]

\* the endpoints that look an entity up and compare it with the region
EntityEndpoints ==
    {"create_address", "get_user_addresses", "get_address", "get_store",
     "get_user_orders", "get_store_orders", "create_order", "create_order_detail",
     "get_order_details", "create_shipment", "create_payment"}

\* does the endpoint have `except HTTPException: raise` before `except Exception`
reraises_http(op) == op = "get_store"
\* create_user has `except ValueError` before `except Exception`
catches_value_error(op) == op = "create_user"

\* is the region part of the lookup's WHERE clause (get_by_id_with_region,
\* execute_raw) instead of being compared afterwards (get_by_id)
scoped_lookup(op) == op \in {"get_store", "get_store_orders", "get_product"}

\* the entities an endpoint checks, in order
entities(op) ==
    IF op = "create_order_detail" THEN <<"Order", "Product">>
    ELSE IF op \in {"get_store", "get_store_orders"} THEN <<"Store">>
    ELSE IF op = "get_address" THEN <<"Address">>
    ELSE IF op \in {"get_order_details", "create_shipment", "create_payment"}
    THEN <<"Order">>
    ELSE <<"User">>

\* the except clauses of an endpoint, applied to an exception e raised in
\* its try block: the exception that leaves the endpoint
\* (mutation) create_user has no clause for ValueError
handler_without_400(op, e) ==
    IF reraises_http(op) /\ e.type = "HTTPException" THEN e
    ELSE HTTPException(500, "Database error: " \o exception_str(e))

handler(op, e) ==
    IF reraises_http(op) /\ e.type = "HTTPException" THEN e
    ELSE IF catches_value_error(op) /\ e.type = "ValueError"
    THEN HTTPException(400, exception_str(e))
    ELSE HTTPException(500, "Database error: " \o exception_str(e))

\* the rows with the given id that the tables may hold
OtherRegion == <<"MX">>
StoredEntities(region) ==
    { PyNone, PyDict([id |-> PyInt(1), region |-> PyStr(region)]),
      PyDict([id |-> PyInt(1), region |-> PyStr(OtherRegion)]) }

\* what the lookup returns for a stored row
looked_up(op, row, region) ==
    IF scoped_lookup(op) /\ row # PyNone /\ row.val.region # PyStr(region)
    THEN PyNone ELSE row

\* `if not user or user.get("region") != region`
not_in_region(row, region) ==
    ~Truthy(row) \/ DictGet(row, "region", PyNone) # PyStr(region)

CatalogLocals ==
    [f \in DOMAIN NoLocals \cup {"doc", "row", "discounted_price", "active_discounts",
                                "user"} |->
        IF f \in DOMAIN NoLocals THEN NoLocals[f]
        ELSE IF f = "active_discounts" THEN <<>> ELSE PyNone]

\* a request of handler p ends with the exception e raised in the try block
Handle(p, e) ==
    /\ Finish(p, HttpError(handler(loc[p].op, e)), [hist[p] EXCEPT !.raised = e.type])
    /\ UNCHANGED <<cache, now, ticks, started, since, written, setter, seq>>

\* an entity endpoint starts
EntityRequest(p, op, region) ==
    /\ Begin(p, "entity:lookup",
             [CatalogLocals EXCEPT !.op = op, !.region = region, !.todo = entities(op)])
    /\ UNCHANGED seq

\* the lookup of the next entity and the check that follows it
EntityLookup(p) ==
    /\ pc[p] = "entity:lookup"
    /\ \E stored \in StoredEntities(loc[p].region) :
         LET row == looked_up(loc[p].op, stored, loc[p].region)
         IN  IF not_in_region(row, loc[p].region)
             THEN Handle(p, HTTPException(404, Head(loc[p].todo) \o " not found"))
             ELSE /\ Goto(p, IF Len(loc[p].todo) > 1 THEN "entity:lookup" ELSE "entity:rest")
                  /\ loc' = [loc EXCEPT ![p].todo = Tail(@), ![p].row = row]
                  /\ UNCHANGED <<cache, now, ticks, started, hist, since, written, setter, seq>>

\* the statements after the checks: they return the entity, or one raises
EntityRest(p) ==
    /\ pc[p] = "entity:rest"
    /\ \/ /\ Return(p, [entity |-> loc[p].row], hist[p])
          /\ UNCHANGED <<cache, now, ticks, started, since, written, setter, seq>>
       \/ Handle(p, Error("SQLAlchemyError"))

\* a lookup raises
EntityRaises(p) ==
    /\ pc[p] \in {"entity:lookup", "get_product:execute_raw", "get_product:find_one"}
    /\ Handle(p, Error("SQLAlchemyError"))

(* ----------------------------- get_product ------------------------------ *)
get_product(p, region) ==
    /\ Begin(p, "get_product:execute_raw",
             [CatalogLocals EXCEPT !.op = "get_product", !.region = region])
    /\ UNCHANGED seq

\* what execute_raw may return for the product query
ProductResults(region) ==
    { PyList(<<>>),
      PyList(<<CatalogRow(PyInt(1000), region)>>),
      PyList(<<CatalogRow(PyDecimal(1000), region)>>) }

\* result = postgres_adapter.execute_raw(...); if not result: raise 404
ProductQuery(p) ==
    /\ pc[p] = "get_product:execute_raw"
    /\ \E result \in ProductResults(loc[p].region) :
         IF ~Truthy(result)
         THEN Handle(p, HTTPException(404, "Producto no encontrado en la region especificada"))
         ELSE /\ Goto(p, "get_product:find_one")
              /\ loc' = [loc EXCEPT ![p].result = result]
              /\ UNCHANGED <<cache, now, ticks, started, hist, since, written, setter, seq>>

\* mongo_doc = mongo_client.find_one("products", {...})
ProductDocument(p) ==
    /\ pc[p] = "get_product:find_one"
    /\ \E mongo_doc \in CatalogDocuments :
         /\ Goto(p, "get_product:now")
         /\ loc' = [loc EXCEPT ![p].doc = mongo_doc]
    /\ UNCHANGED <<cache, now, ticks, started, hist, since, written, setter, seq>>

\* pydantic's conversion of a value given for an int field
int_field(x) == IF x.kind = "Decimal" THEN PyInt(x.val) ELSE x

\* does DiscountResponse (id, percentage, start_date, end_date, is_active)
\* validate the discount sub-document
DiscountResponseValid(discount) ==
    /\ {"id", "percentage", "start_date", "end_date", "is_active"} \subseteq DOMAIN discount.val
    /\ IsIsoDate(discount.val.start_date)
    /\ IsIsoDate(discount.val.end_date)

\* ProductResponse(...): the model has no discounted_price field, and
\* pydantic ignores a keyword that is no field
ProductResponse(product, images, active_discounts) ==
    [id |-> product.val.id, price |-> int_field(product.val.price),
     region |-> product.val.region, images |-> images,
     active_discounts |-> active_discounts]

\* the statements after find_one, from `images = []` to the discount
ProductPrice(p) ==
    /\ pc[p] = "get_product:now"
    /\ LET product == loc[p].result.val[1]
           pricing == product_pricing(product, loc[p].doc, date_now(now))
       IN  IF pricing.exc # ""
           THEN Handle(p, Error(pricing.exc))
           ELSE /\ Goto(p, "get_product:return")
                /\ loc' = [loc EXCEPT ![p].discounted_price = pricing.discounted_price,
                                      ![p].active_discounts = pricing.active_discounts]
                /\ UNCHANGED <<cache, now, ticks, started, hist, since, written, setter, seq>>

\* return ProductResponse(...): the validation of the model may raise
ProductReturn(p) ==
    /\ pc[p] = "get_product:return"
    /\ LET product == loc[p].result.val[1]
           active_discounts == loc[p].active_discounts
       IN  IF \E n \in DOMAIN active_discounts : ~DiscountResponseValid(active_discounts[n])
           THEN Handle(p, Error("ValidationError"))
           ELSE /\ Return(p, ProductResponse(product, product_images(loc[p].doc),
                                             active_discounts), hist[p])
                /\ UNCHANGED <<cache, now, ticks, started, since, written, setter, seq>>

(* ------------- the enrichment loop of get_popular_products -------------- *)
\* The loop of get_popular_products on its own: it starts from the rows
\* execute_raw returned and ends with result_with_images, the value that
\* goes to set_value.  The document of the current pass is kept in loc.
LoopRows(region) ==
    { PyList(<<ProductRow(1, PyInt(1000), region)>>),
      PyList(<<ProductRow(1, PyInt(1000), region), ProductRow(2, PyInt(1000), region)>>) }

\* result = postgres_adapter.execute_raw(...); result_with_images = []
LoopStart(p, region) ==
    /\ \E rows \in LoopRows(region) :
         Begin(p, "loop:find_one",
               [CatalogLocals EXCEPT !.op = "get_popular_products", !.region = region,
                                     !.result = rows, !.i = 1])
    /\ UNCHANGED seq

\* doc = mongo_client.find_one("products", {...})
LoopLookup(p) ==
    /\ pc[p] = "loop:find_one"
    /\ \E doc \in CatalogDocuments :
         /\ Goto(p, "loop:append")
         /\ loc' = [loc EXCEPT ![p].doc = doc]
    /\ hist' = [hist EXCEPT ![p] = Looked(@, loc[p].result.val[loc[p].i], loc[p].region)]
    /\ UNCHANGED <<cache, now, ticks, started, since, written, setter, seq>>

\* the rest of the pass, from `first_image = None` to the append
LoopAppend(p) ==
    /\ pc[p] = "loop:append"
    /\ LET pass == enrich(loc[p].result.val[loc[p].i], loc[p].doc, loc[p].discount)
       IN  IF pass.exc # ""
           THEN Propagate(p, pass.exc)
           ELSE IF loc[p].i = Len(loc[p].result.val)
           THEN Return(p, [data |-> PyList(Append(loc[p].result_with_images, pass.item))],
                       hist[p])
           ELSE /\ Goto(p, "loop:find_one")
                /\ loc' = [loc EXCEPT
                      ![p].discount = pass.discount,
                      ![p].result_with_images = Append(@, pass.item),
                      ![p].i = @ + 1]
                /\ UNCHANGED hist
    /\ UNCHANGED <<cache, now, ticks, started, since, written, setter, seq>>

(* ----------------------------- create_user ------------------------------ *)
\* does datetime.strptime(text, "%Y-%m-%d") accept the string: three
\* '-'-separated numbers, a year of four digits, a month and a day of it
strptime_accepts(text) ==
    /\ Len(text.val) = 3
    /\ text.val[1] \in 1..9999
    /\ text.val[2] \in 1..12
    /\ text.val[3] \in 1..DaysIn(text.val[2])

\* the birthday strings of the requests: "1990-05-17", "1990-02-30",
\* "1990-13-01", "17-05-1990", "17/05/1990" and ""
Birthdays ==
    { PyStr(<<1990, 5, 17>>), PyStr(<<1990, 2, 30>>), PyStr(<<1990, 13, 1>>),
      PyStr(<<17, 5, 1990>>), PyStr(<<"17/05/1990">>), PyStr(<<"">>) }

\* user: UserCreate
UserCreate(birthday, region) ==
    PyDict([name |-> PyStr(<<"n">>), email |-> PyStr(<<"e">>), birthday |-> birthday,
            region |-> PyStr(region)])

create_user(p, user) ==
    /\ Begin(p, "create_user:strptime",
             [CatalogLocals EXCEPT !.op = "create_user", !.region = user.val.region.val,
                                   !.user = user])
    /\ UNCHANGED seq

\* birthday = datetime.strptime(user.birthday, "%Y-%m-%d")
UserBirthday(p) ==
    /\ pc[p] = "create_user:strptime"
    /\ IF strptime_accepts(loc[p].user.val.birthday)
       THEN /\ Goto(p, "create_user:insert")
            /\ UNCHANGED <<cache, now, ticks, started, loc, hist, since, written, setter, seq>>
       ELSE Handle(p, Error("ValueError"))

\* user_id = postgres_adapter.insert(table="usermanagement.users", data=user_data)
UserInsert(p) ==
    /\ pc[p] = "create_user:insert"
    /\ \/ /\ Goto(p, "create_user:return")
          /\ hist' = [hist EXCEPT ![p].inserts = @ \cup {loc[p].user}]
          /\ UNCHANGED <<cache, now, ticks, started, loc, since, written, setter, seq>>
       \/ Handle(p, Error("SQLAlchemyError"))

\* return UserResponse(id=user_id, ...)
UserReturn(p) ==
    /\ pc[p] = "create_user:return"
    /\ Return(p, [id |-> PyInt(1), name |-> loc[p].user.val.name,
                  email |-> loc[p].user.val.email, region |-> loc[p].user.val.region],
              hist[p])
    /\ UNCHANGED <<cache, now, ticks, started, since, written, setter, seq>>


(* ------------------ specification outside the cache --------------------- *)
\* These endpoints share no state, so their requests are run one at a time.
CatalogProcs == {1}

EntityEndpointRequest ==
    \E p \in CatalogProcs, op \in EntityEndpoints, r \in Regions : EntityRequest(p, op, r)
DoEntityLookup == \E p \in CatalogProcs : EntityLookup(p)
DoEntityRest == \E p \in CatalogProcs : EntityRest(p)
DoEntityRaises == \E p \in CatalogProcs : EntityRaises(p)
ProductRequest == \E p \in CatalogProcs, r \in Regions : get_product(p, r)
DoProductQuery == \E p \in CatalogProcs : ProductQuery(p)
DoProductDocument == \E p \in CatalogProcs : ProductDocument(p)
DoProductPrice == \E p \in CatalogProcs : ProductPrice(p)
DoProductReturn == \E p \in CatalogProcs : ProductReturn(p)
DoLoopStart == \E p \in CatalogProcs, r \in Regions : LoopStart(p, r)
DoLoopLookup == \E p \in CatalogProcs : LoopLookup(p)
DoLoopAppend == \E p \in CatalogProcs : LoopAppend(p)
CreateUserRequest ==
    \E p \in CatalogProcs, birthday \in Birthdays, r \in Regions :
        create_user(p, UserCreate(birthday, r))
DoUserBirthday == \E p \in CatalogProcs : UserBirthday(p)
DoUserInsert == \E p \in CatalogProcs : UserInsert(p)
DoUserReturn == \E p \in CatalogProcs : UserReturn(p)

CatalogNext ==
    \/ EntityEndpointRequest
    \/ DoEntityLookup
    \/ DoEntityRest
    \/ DoEntityRaises
    \/ ProductRequest
    \/ DoProductQuery
    \/ DoProductDocument
    \/ DoProductPrice
    \/ DoProductReturn
    \/ DoLoopStart
    \/ DoLoopLookup
    \/ DoLoopAppend
    \/ CreateUserRequest
    \/ DoUserBirthday
    \/ DoUserInsert
    \/ DoUserReturn
    \/ TimePasses

CatalogSpec == Init /\ [][CatalogNext]_vars


(* ------------------- numeric normalization on its own ------------------- *)
\* depth of nesting of the values normalized
MaxDepth == 2

\* one scalar of every kind a row can hold
Scalars ==
    { PyInt(1), PyFloat(1), PyDecimal(1), PyDecimal(2), PyStr(<<"a">>),
      PyBool(TRUE), PyNone }

\* lists and dicts over the scalars, nested up to `depth` deep
RECURSIVE Nested(_)
Nested(depth) ==
    IF depth = 0 THEN Scalars
    ELSE LET inner == Nested(depth - 1)
         IN  inner
             \cup { PyList(<<>>), PyDict(<<>>) }
             \cup { PyList(<<x>>) : x \in inner }
             \cup { PyList(<<x, s>>) : x \in inner, s \in {PyDecimal(1), PyInt(1)} }
             \cup { PyList(<<s, x>>) : x \in inner, s \in {PyDecimal(1), PyStr(<<"a">>)} }
             \cup { PyDict([a |-> x]) : x \in inner }
             \cup { PyDict([a |-> s, b |-> x]) : x \in inner, s \in {PyDecimal(2), PyNone} }

\* the three copies of the function
Normalizers == {"convert_decimals", "get_store_sales_ranking", "get_delivery_times"}

ConvertInit ==
    /\ cache = [k \in {} |-> Nil]
    /\ now = 0
    /\ ticks = 0
    /\ started = 0
    /\ pc = [p \in Procs |-> IF p = 1 THEN "convert_decimals" ELSE "idle"]
    /\ \E obj \in Nested(MaxDepth) :
         loc = [p \in Procs |-> IF p = 1 THEN [NoLocals EXCEPT !.result = obj] ELSE NoLocals]
    /\ out = NoOut
    /\ hist = [p \in Procs |-> NoHist]
    /\ since = [p \in Procs |-> {}]
    /\ written = [k \in {} |-> 0]
    /\ setter = [k \in {} |-> 0]
    /\ seq = NoSeq

\* result = <function>(obj)
Normalize(op, result) ==
    /\ pc[1] = "convert_decimals"
    /\ pc' = [pc EXCEPT ![1] = "idle"]
    /\ out' = [p |-> 1, op |-> op, obj |-> loc[1].result, result |-> result,
               twice |-> Unbound]
    /\ UNCHANGED <<cache, now, ticks, started, loc, hist, since, written, setter, seq>>

ConvertModule == Normalize("convert_decimals", convert_decimals(loc[1].result))
ConvertRanking == Normalize("get_store_sales_ranking", ranking_convert_decimals(loc[1].result))
ConvertDelivery == Normalize("get_delivery_times", delivery_convert_decimals(loc[1].result))

\* the copy of the function that `op` names, applied to obj
normalizer(op, obj) ==
    CASE op = "convert_decimals"        -> convert_decimals(obj)
      [] op = "get_store_sales_ranking" -> ranking_convert_decimals(obj)
      [] op = "get_delivery_times"      -> delivery_convert_decimals(obj)

\* twice = <function>(result): the function applied to its own result
ConvertAgain ==
    /\ out.p # 0
    /\ out.op \in Normalizers
    /\ out.twice = Unbound
    /\ out' = [out EXCEPT !.twice = normalizer(out.op, out.result)]
    /\ UNCHANGED <<cache, now, ticks, started, pc, loc, hist, since, written, setter, seq>>

ConvertNext == ConvertModule \/ ConvertRanking \/ ConvertDelivery \/ ConvertAgain

ConvertSpec == ConvertInit /\ [][ConvertNext]_vars


(* ------------------- invalidation of a filled cache --------------------- *)
\* the entries that the misses of endpoint op leave in the cache: none, those
\* of region "CO", or those of regions "CO" and "CO:timestamp" as well
StoredEntry(value, ttl) == [val |-> json_dumps(value), exp |-> ttl]
StoredKeys(op) ==
    LET key == cache_key(op, <<"CO">>)
    IN  { {}, {key, timestamp_key(key)},
          {key, timestamp_key(key), timestamp_key(timestamp_key(key))} }
StoredValue(op, k) ==
    IF k = cache_key(op, <<"CO">>)
    THEN StoredEntry(PyList(<<>>), ttl_seconds(op))
    ELSE StoredEntry(isoformat(0), ttl_seconds(op))

ClearInit ==
    /\ now = 0
    /\ ticks = 0
    /\ started = 0
    /\ pc = [p \in Procs |-> "idle"]
    /\ loc = [p \in Procs |-> NoLocals]
    /\ out = NoOut
    /\ hist = [p \in Procs |-> NoHist]
    /\ since = [p \in Procs |-> {}]
    /\ seq = NoSeq
    /\ \E ranking \in StoredKeys("get_store_sales_ranking"),
          delivery \in StoredKeys("get_delivery_times"),
          popular \in StoredKeys("get_popular_products") :
         LET op(k) == CHOOSE o \in Analytics : k[1] = prefix(o)[1]
             keys == ranking \cup delivery \cup popular
         IN  /\ cache = [k \in keys |-> StoredValue(op(k), k)]
             /\ written = [k \in keys |-> [at |-> 0, ttl |-> ttl_seconds(op(k))]]
             /\ setter = [k \in keys |-> [by |-> 1, for |-> cache_key(op(k), <<"CO">>)]]

ClearNext ==
    \/ ClearDeliveryTimesRequest
    \/ ClearPopularRequest
    \/ ClearStoreSalesRequest
    \/ DoListKeys
    \/ DoDeleteKeys

ClearSpec == ClearInit /\ [][ClearNext]_vars

(* ------------------------------ properties ------------------------------ *)
\* the request that has just ended
Ended == out.p # 0
EndedAnalytics == Ended /\ out.op \in Analytics

\* C1: when a request misses and completes and the next request for the same
\* endpoint and region runs while the entry is in the cache, with no step of
\* any other request, no expiry and no invalidation in between, the second
\* request (unless one of its cache calls raises) answers with source "redis"
\* and with data equal to the data of the first response.
C1_RepeatServedFromCache ==
    (seq.stage = 4 /\ out.response.status = 200)
        => (IsHit(out.response) /\ out.response.body.data = seq.data)

C1_Witness ==
    /\ seq.stage = 4
    /\ out.op = "get_popular_products"
    /\ IsHit(out.response)
    /\ out.response.body.data = seq.data
    /\ Len(seq.data.val) = 2

\* C2: a response with source "redis" carries the stored value as data,
\* never the None that stands for an absent key.
C2_HitCarriesStoredValue ==
    (Ended /\ IsHit(out.response)) => out.response.body.data # PyNone

\* C3 as stated: when an invalidation endpoint returns, no key under its
\* query type's prefix is in the cache.
C3_ClearedMeansMiss ==
    (Ended /\ out.op \in Invalidations /\ IsCleared(out.response))
        => client_keys(cache, prefix(cleared(out.op))) = {}

\* C3 amended: when an invalidation endpoint returns, every key under its
\* query type's prefix that is in the cache was SET by another request after
\* the invalidation first listed the keys.
C3_ClearedExceptLaterWrites ==
    (Ended /\ out.op \in Invalidations /\ IsCleared(out.response))
        => client_keys(cache, prefix(cleared(out.op))) \subseteq since[out.p]

\* an invalidation returns having removed entries that set_value had completed
C3_Witness ==
    /\ Ended /\ out.op = "clear_store_sales_cache" /\ IsCleared(out.response)
    /\ now = 0
    /\ since[out.p] = {}
    /\ client_keys(cache, <<"store_sales_ranking">>) = {}
    /\ \E r \in Regions :
         {cache_key("get_store_sales_ranking", r),
          timestamp_key(cache_key("get_store_sales_ranking", r))} \subseteq DOMAIN written

\* C4: the value of a set_value with ttl T > 0 is what get_value returns right
\* after the SET and still after the EXPIRE that ends set_value; once T has
\* elapsed since set_value returned, with no later SET or EXPIRE of the key,
\* the key does not exist and a request that checks it goes to the origin.
TtlElapsed(k) == k \in DOMAIN written /\ now >= written[k].at + written[k].ttl

C4_TtlCorrect ==
    [][ /\ \A p \in Procs :
             /\ (pc[p] = "set_value:set" /\ pc'[p] = "set_value:expire")
                    => get_value(cache', loc[p].cache_key) = payload(p)
             /\ (pc[p] = "set_value_timestamp:set" /\ pc'[p] = "set_value_timestamp:expire")
                    => get_value(cache', timestamp_key(loc[p].cache_key)) = timestamp_value(p)
             /\ (pc[p] = "set_value:expire" /\ pc'[p] = "set_value_timestamp:set"
                    /\ key_exists(cache, loc[p].cache_key))
                    => get_value(cache', loc[p].cache_key) = get_value(cache, loc[p].cache_key)
             /\ (pc[p] = "key_exists" /\ TtlElapsed(loc[p].cache_key)
                    /\ pc'[p] \notin {"key_exists", "idle"})
                    => pc'[p] = "execute_raw"
        /\ \A k \in DOMAIN written' :
             /\ written'[k].ttl > 0
             /\ (now' >= written'[k].at + written'[k].ttl) => ~key_exists(cache', k)
      ]_vars

C4_Witness ==
    \E p \in Procs :
        /\ pc[p] = "execute_raw"
        /\ TtlElapsed(loc[p].cache_key)
        /\ now = written[loc[p].cache_key].at + written[loc[p].cache_key].ttl

\* C5: when the relational query, a document lookup or the enrichment of a
\* record raises, the request fails, it has written nothing to the cache, and
\* the failing step leaves the cache as it was.
OriginFailures == OriginCalls \cup {"UnboundLocalError", "TypeError"}

C5_OriginFailureLeavesCache ==
    [][ /\ \A p \in Procs :
             (pc[p] \in OriginCalls /\ pc'[p] = "idle") => cache' = cache
        /\ (out'.p # 0 /\ out'.raised \in OriginFailures)
             => (out'.response = InternalServerError /\ out'.sets = {} /\ out'.expires = {})
        /\ \A p \in Procs :
             (hist'[p].raised \in OriginFailures) => pc'[p] = "idle"
      ]_vars

C5_Witness ==
    /\ Ended /\ out.op = "get_popular_products" /\ out.raised = "find_one"
    /\ out.response = InternalServerError
    /\ DOMAIN cache # {}

\* C6: a request that answers from the origin has SET the data key and the
\* ':timestamp' key and has given both the same TTL.
C6_MissWritesBoth ==
    (Ended /\ IsMiss(out.response))
        => /\ out.sets = {out.cache_key, out.cache_key \o <<"timestamp">>}
           /\ Cardinality(out.sets) = 2
           /\ \E ttl \in {e[2] : e \in out.expires} :
                out.expires = {<<out.cache_key, ttl>>,
                               <<out.cache_key \o <<"timestamp">>, ttl>>}

C6_Witness ==
    /\ Ended /\ IsMiss(out.response) /\ out.op = "get_popular_products"
    /\ Cardinality(out.expires) = 2

\* C7: ranking and delivery-time entries get a TTL of 2,592,000 seconds and
\* popular-product entries one of 86,400 seconds, and nothing else: in every
\* EXPIRE a request makes and in the expiry of every key in the cache.
StatedTtl(first) == IF first = "popular_products" THEN 86400 ELSE 2592000

C7_TtlPolicy ==
    /\ \A p \in Procs : \A e \in hist[p].expires : e[2] = StatedTtl(e[1][1])
    /\ EndedAnalytics => \A e \in out.expires : e[2] = StatedTtl(e[1][1])
    /\ \A k \in DOMAIN cache :
         cache[k].exp # NoExpiry
            => (cache[k].exp - StatedTtl(k[1]) >= 0 /\ cache[k].exp - StatedTtl(k[1]) <= now)

C7_Witness ==
    /\ \E k \in DOMAIN cache : k[1] = "popular_products" /\ cache[k].exp = 86400
    /\ \E k \in DOMAIN cache : k[1] = "store_sales_ranking" /\ cache[k].exp = 2592000

\* C8: a cache existence check or cache read that raises does not fail the
\* request.
C8_CacheReadFailureFallsThrough ==
    ~(Ended /\ out.raised \in CacheReads /\ out.response.status = 500)

\* C9: a request in which a cache write has failed (json.dumps, SET or EXPIRE
\* of the data entry or of the timestamp entry raised) does not answer with
\* the origin success response.
WriteFailures == CacheWrites \cup {"json.dumps"}

C10_WrittenValuesNormalized ==
    \A p \in Procs : pc[p] = "set_value:set" => ~HasDecimal(payload(p))

\* does the document lack a discount object (or is there no document)
NoDiscountObject(doc) == ~(Truthy(doc) /\ "discount" \in DOMAIN doc.val)

\* the pass of the enrichment loop that handler p makes in this step
LoopPass(p) == pc[p] = "loop:append" /\ pc'[p] # "loop:append"
PassFailed(p) == pc'[p] = "idle" /\ out'.response.status # 200
\* the item that pass appends
Appended(p) ==
    IF pc'[p] = "idle"
    THEN out'.response.body.data.val[Len(out'.response.body.data.val)]
    ELSE loc'[p].result_with_images[Len(loc'[p].result_with_images)]

\* C11: in get_popular_products, a pass of the loop for a record whose
\* document is missing or has no discount object does not fail the request and
\* appends an item whose discounted_price equals its price, whatever the
\* earlier passes left in the local `discount`.
C11_NoDiscountObjectKeepsPrice ==
    [][ \A p \in CatalogProcs :
          (LoopPass(p) /\ NoDiscountObject(loc[p].doc))
             => (~PassFailed(p) /\ Appended(p).val.discounted_price = Appended(p).val.price)
      ]_vars

\* does the document have a discount object
HasDiscount(doc) == Truthy(doc) /\ "discount" \in DOMAIN doc.val

\* does the discount have a validity window, and is `date` outside of it
WindowExcludes(discount, date) ==
    /\ {"start_date", "end_date"} \subseteq DOMAIN discount.val
    /\ IsIsoDate(discount.val.start_date) /\ IsIsoDate(discount.val.end_date)
    /\ \/ ~DateLE(fromisoformat_date(discount.val.start_date), date)
       \/ ~DateLE(date, fromisoformat_date(discount.val.end_date))

\* the step in which get_product computes the discounted price
PricingStep(p) == pc[p] = "get_product:now" /\ pc'[p] # "get_product:now"

\* C12: in get_popular_products and in get_product, a product whose
\* discount has a validity window that does not contain today's date gets a
\* discounted price equal to its price, also when the discount is active.
C12_OutsideWindowKeepsPrice ==
    [][ \A p \in CatalogProcs :
          /\ (LoopPass(p) /\ HasDiscount(loc[p].doc)
                /\ WindowExcludes(loc[p].doc.val.discount, date_now(now)))
               => (~PassFailed(p)
                   /\ Appended(p).val.discounted_price = Appended(p).val.price)
          /\ (PricingStep(p) /\ HasDiscount(loc[p].doc)
                /\ WindowExcludes(loc[p].doc.val.discount, date_now(now)))
               => (pc'[p] = "get_product:return"
                   /\ loc'[p].discounted_price = loc[p].result.val[1].val.price)
      ]_vars

\* C12 for get_product alone, which does look at the window
C12_ProductOutsideWindowKeepsPrice ==
    [][ \A p \in CatalogProcs :
          (PricingStep(p) /\ HasDiscount(loc[p].doc)
                /\ WindowExcludes(loc[p].doc.val.discount, date_now(now)))
               => (pc'[p] = "get_product:return"
                   /\ loc'[p].discounted_price = loc[p].result.val[1].val.price)
      ]_vars

\* is the discount marked active
MarkedActive(discount) ==
    "isActive" \in DOMAIN discount.val /\ discount.val.isActive = PyBool(TRUE)

\* C13: in get_popular_products and in get_product, a product whose
\* document has a discount object that is not marked active gets a discounted
\* price equal to its price, whatever the percentage and the window.
C13_InactiveKeepsPrice ==
    [][ \A p \in CatalogProcs :
          /\ (LoopPass(p) /\ HasDiscount(loc[p].doc)
                /\ ~MarkedActive(loc[p].doc.val.discount))
               => (~PassFailed(p)
                   /\ Appended(p).val.discounted_price = Appended(p).val.price)
          /\ (PricingStep(p) /\ HasDiscount(loc[p].doc)
                /\ ~MarkedActive(loc[p].doc.val.discount))
               => (pc'[p] = "get_product:return"
                   /\ loc'[p].discounted_price = loc[p].result.val[1].val.price
                   /\ loc'[p].active_discounts = <<>>)
      ]_vars

\* get_product has priced a product with an inactive discount whose window
\* contains today
C13_Witness ==
    \E p \in CatalogProcs :
        /\ pc[p] = "get_product:return"
        /\ HasDiscount(loc[p].doc)
        /\ ~MarkedActive(loc[p].doc.val.discount)
        /\ "start_date" \in DOMAIN loc[p].doc.val.discount.val
        /\ ~WindowExcludes(loc[p].doc.val.discount, date_now(now))
        /\ loc[p].discounted_price = PyInt(1000)

\* the discount is active with an integer percentage in 0..100 and a window
\* that includes `date`, both ends inclusive
ActiveToday(discount, date) ==
    /\ MarkedActive(discount)
    /\ "percentage" \in DOMAIN discount.val
    /\ discount.val.percentage.kind = "int"
    /\ discount.val.percentage.val \in 0..100
    /\ "start_date" \in DOMAIN discount.val
    /\ "end_date" \in DOMAIN discount.val
    /\ IsIsoDate(discount.val.start_date)
    /\ IsIsoDate(discount.val.end_date)
    /\ DateLE(fromisoformat_date(discount.val.start_date), date)
    /\ DateLE(date, fromisoformat_date(discount.val.end_date))

\* the price reduced by the percentage, truncated to an integer
Reduced(price, percentage) == PyInt((price.val * (100 - percentage.val)) \div 100)

\* C14: in get_popular_products and in get_product, a product with an
\* integer price whose discount is active with an integer percentage p in
\* 0..100 and a window that includes today gets the price reduced by p
\* percent, truncated to an integer.
C14_DiscountedPriceIsReduced ==
    [][ \A p \in CatalogProcs :
          /\ (LoopPass(p) /\ HasDiscount(loc[p].doc)
                /\ ActiveToday(loc[p].doc.val.discount, date_now(now))
                /\ loc[p].result.val[loc[p].i].val.price.kind = "int")
               => (~PassFailed(p)
                   /\ Appended(p).val.discounted_price
                        = Reduced(Appended(p).val.price,
                                  loc[p].doc.val.discount.val.percentage))
          /\ (PricingStep(p) /\ HasDiscount(loc[p].doc)
                /\ ActiveToday(loc[p].doc.val.discount, date_now(now))
                /\ loc[p].result.val[1].val.price.kind = "int")
               => (pc'[p] = "get_product:return"
                   /\ loc'[p].discounted_price
                        = Reduced(loc[p].result.val[1].val.price,
                                  loc[p].doc.val.discount.val.percentage))
      ]_vars

\* the request that ended found its entity missing or in another region
EntityNotFound ==
    /\ Ended
    /\ out.op \in EntityEndpoints \cup {"get_product"}
    /\ out.raised = "HTTPException"

\* C15: an endpoint that checks an entity against the requested region
\* answers 404, not a server error, when the entity does not exist or belongs
\* to another region.
C15_NotFoundIs404 == EntityNotFound => out.response.status = 404

\* C15 for get_store alone, whose handler re-raises the HTTPException
C15_StoreNotFoundIs404 ==
    (EntityNotFound /\ out.op = "get_store") => out.response.status = 404

\* handler p ends an analytics request with a response body
AnalyticsAnswer(p) ==
    /\ loc[p].op \in Analytics
    /\ pc[p] # "idle"
    /\ pc'[p] = "idle"
    /\ out'.response.status = 200

C17_CachedAtIsWrittenStamp ==
    (EndedAnalytics /\ IsMiss(out.response))
        => out.response.body.cached_at = out.stamp

\* C17 for the endpoints that read the clock once into now_iso
C17_NowIsoIsWrittenStamp ==
    (EndedAnalytics /\ IsMiss(out.response) /\ out.op # "get_popular_products")
        => out.response.body.cached_at = out.stamp

\* the steps of the miss path
MissPath ==
    {"execute_raw", "find_one", "set_value:set", "set_value:expire",
     "set_value_timestamp:set", "set_value_timestamp:expire"}
DataSet(p) == pc[p] = "set_value:set" /\ pc'[p] = "set_value:expire"
StampSet(p) == pc[p] = "set_value_timestamp:set" /\ pc'[p] = "set_value_timestamp:expire"

\* C18: requests that miss on the same key at the same time all go on to the
\* origin and to their writes; every write of the data entry leaves the whole
\* serialized result of the writing request in it, whatever another request
\* wrote before, and the entry's value changes by no other step, so it is
\* the result of the request that wrote last and never a mixture.
C18_LastWriteWins ==
    [][ /\ \A p \in Procs :
             /\ DataSet(p) => cache'[loc[p].cache_key].val = json_dumps(payload(p))
             /\ (pc[p] \in MissPath /\ pc'[p] # "idle") => pc'[p] \in MissPath
             /\ (pc[p] \in MissPath /\ pc'[p] = "idle" /\ out'.response.status = 200)
                    => IsMiss(out'.response)
        /\ \A k \in DOMAIN cache' :
             (k \notin DOMAIN cache \/ cache'[k].val # cache[k].val)
                => \E p \in Procs :
                     \/ DataSet(p) /\ k = loc[p].cache_key
                          /\ cache'[k].val = json_dumps(payload(p))
                     \/ StampSet(p) /\ k = timestamp_key(loc[p].cache_key)
                          /\ cache'[k].val = json_dumps(timestamp_value(p))
      ]_vars

\* two requests missed on the same key at the same time with different
\* results; one has returned, the other wrote the data entry after it, and
\* the entry holds the other's result
C18_Witness ==
    /\ ticks = 0
    /\ EndedAnalytics /\ IsMiss(out.response)
    /\ \E q \in Procs \ {out.p} :
         /\ pc[q] = "set_value:expire"
         /\ loc[q].cache_key = out.cache_key
         /\ payload(q) # out.response.body.data
         /\ get_value(cache, out.cache_key) = payload(q)

\* the analytics requests in flight, and the last one that ended, each with
\* its endpoint, its region and the key it derived
KeyedRequests ==
    { [op |-> loc[p].op, region |-> loc[p].region, key |-> loc[p].cache_key]
        : p \in { q \in Procs : loc[q].op \in Analytics } }
    \cup (IF EndedAnalytics
          THEN {[op |-> out.op, region |-> out.region, key |-> out.cache_key]}
          ELSE {})

\* C19: the cache key of an analytics request depends on its query type and
\* region only: requests with the same query type and region have the same
\* key, whenever they run, and requests that differ in either have
\* different keys.
C19_KeyDeterminedByTypeAndRegion ==
    \A a, b \in KeyedRequests :
        (a.key = b.key) <=> (a.op = b.op /\ a.region = b.region)

\* a request of an endpoint has ended and a request of the same endpoint for
\* another region is in flight, under a different key
C19_Witness ==
    /\ EndedAnalytics
    /\ \E p \in Procs :
         /\ loc[p].op = out.op
         /\ loc[p].region # out.region
         /\ loc[p].cache_key # out.cache_key
         /\ loc[p].cache_key = cache_key(out.op, loc[p].region)

\* is `result` the value `obj` with the same containers, keys and element
\* order, every Decimal replaced by the float of the same number and every
\* other scalar as it was
RECURSIVE SameButDecimals(_, _)
SameButDecimals(obj, result) ==
    CASE obj.kind = "list" ->
            /\ result.kind = "list"
            /\ Len(result.val) = Len(obj.val)
            /\ \A i \in DOMAIN obj.val : SameButDecimals(obj.val[i], result.val[i])
      [] obj.kind = "dict" ->
            /\ result.kind = "dict"
            /\ DOMAIN result.val = DOMAIN obj.val
            /\ \A k \in DOMAIN obj.val : SameButDecimals(obj.val[k], result.val[k])
      [] obj.kind = "Decimal" -> result = PyFloat(obj.val)
      [] OTHER -> result = obj

\* a normalization has returned
Normalized == out.p # 0 /\ out.op \in Normalizers

C21_NormalizeIdempotent ==
    (Normalized /\ out.twice # Unbound) => out.twice = out.result

\* the module-level function was applied twice to a structure with Decimals
\* and floats at two depths, and the second application changed nothing
C21_Witness ==
    /\ Normalized
    /\ out.op = "convert_decimals"
    /\ out.obj = PyList(<<PyDecimal(1), PyDict([a |-> PyDecimal(2), b |-> PyFloat(1)])>>)
    /\ out.twice = PyList(<<PyFloat(1), PyDict([a |-> PyFloat(2), b |-> PyFloat(1)])>>)
    /\ out.twice = out.result

\* handler p runs the strptime of create_user
BirthdayStep(p) == pc[p] = "create_user:strptime" /\ pc'[p] # "create_user:strptime"

\* C22: create_user with a birthday that does not parse as YYYY-MM-DD answers
\* 400 and inserts nothing into the relational store.
C22_BadBirthdayIs400 ==
    [][ \A p \in CatalogProcs :
          (BirthdayStep(p) /\ ~strptime_accepts(loc[p].user.val.birthday))
            => /\ pc'[p] = "idle"
               /\ out'.response.status = 400
               /\ out'.inserts = {}
               /\ hist'[p].inserts = {}
      ]_vars

\* a create_user request was refused with 400 without an insert, after its
\* birthday failed to parse
C22_Witness ==
    /\ Ended
    /\ out.op = "create_user"
    /\ out.raised = "ValueError"
    /\ out.response.status = 400
    /\ out.inserts = {}

\* handler p takes a step of a request that the cache answers: the check that
\* finds the key, or the read that follows it
HitStep(p) ==
    /\ loc[p].op \in Analytics
    /\ \/ pc[p] = "key_exists" /\ pc'[p] = "get_value"
       \/ pc[p] = "get_value" /\ pc'[p] # "get_value"

\* C23: a request served from the cache runs no relational query and no
\* document lookup and leaves the cache as it is: it writes no entry and
\* changes no TTL, neither of the data entry nor of its timestamp companion.
C23_HitLeavesCacheAlone ==
    [][ \A p \in Procs :
          HitStep(p) =>
            /\ cache' = cache
            /\ pc'[p] \in {"get_value", "idle"}
            /\ loc[p].result = PyNone /\ loc[p].result_with_images = <<>>
            /\ hist'[p].sets = {} /\ hist'[p].expires = {}
            /\ pc'[p] = "idle" => (out'.sets = {} /\ out'.expires = {})
      ]_vars

\* a request has been answered from the cache some time after the entries
\* were written, and both entries are in the cache with their expiry
C23_Witness ==
    /\ EndedAnalytics
    /\ IsHit(out.response)
    /\ out.sets = {}
    /\ ticks > 0
    /\ out.cache_key \in DOMAIN cache
    /\ timestamp_key(out.cache_key) \in DOMAIN cache
    /\ cache[out.cache_key].exp # NoExpiry
    /\ written[out.cache_key].at < now

\* the filters of the lookups for the first n rows, in the order of the rows
ExpectedLookups(rows, region, n) ==
    [i \in 1..n |-> PyDict([_id |-> rows.val[i].val.id, region |-> PyStr(region)])]

\* C24: on a popular-products miss there is exactly one document lookup for
\* each relational record, filtered by the id of the record and the region
\* of the request, in the order of the result, and every lookup is done
\* before the first cache write.
C24_OneLookupPerRecord ==
    \A p \in Procs :
        loc[p].op = "get_popular_products" =>
            /\ pc[p] \in CacheReads \cup {"execute_raw"} => hist[p].lookups = <<>>
            /\ pc[p] = "find_one" =>
                 /\ hist[p].lookups
                      = ExpectedLookups(loc[p].result, loc[p].region, loc[p].i - 1)
                 /\ hist[p].sets = {}
            /\ pc[p] \in CacheWrites =>
                 hist[p].lookups
                   = ExpectedLookups(loc[p].result, loc[p].region, Len(loc[p].result.val))

\* a popular-products miss with two records has made its first cache write
\* after two lookups
C24_Witness ==
    \E p \in Procs :
        /\ loc[p].op = "get_popular_products"
        /\ pc[p] = "set_value:expire"
        /\ Len(loc[p].result.val) = 2
        /\ Len(hist[p].lookups) = 2
        /\ hist[p].lookups[1] # hist[p].lookups[2]
        /\ hist[p].sets = {loc[p].cache_key}

\* the discount has no validity window
NoWindow(discount) ==
    "start_date" \notin DOMAIN discount.val /\ "end_date" \notin DOMAIN discount.val

\* C25: in get_product an active discount that has no start_date and no
\* end_date is applied: the discounted price is the price reduced by its
\* percentage, as in get_popular_products.
C25_NoWindowApplies ==
    [][ \A p \in CatalogProcs :
          /\ (PricingStep(p) /\ HasDiscount(loc[p].doc)
                /\ MarkedActive(loc[p].doc.val.discount)
                /\ NoWindow(loc[p].doc.val.discount)
                /\ loc[p].result.val[1].val.price.kind = "int")
               => (pc'[p] = "get_product:return"
                   /\ loc'[p].discounted_price
                        = Reduced(loc[p].result.val[1].val.price,
                                  loc[p].doc.val.discount.val.percentage))
          /\ (LoopPass(p) /\ HasDiscount(loc[p].doc)
                /\ MarkedActive(loc[p].doc.val.discount)
                /\ NoWindow(loc[p].doc.val.discount)
                /\ loc[p].result.val[loc[p].i].val.price.kind = "int")
               => (~PassFailed(p)
                   /\ Appended(p).val.discounted_price
                        = Reduced(Appended(p).val.price,
                                  loc[p].doc.val.discount.val.percentage))
      ]_vars

\* C25 for get_popular_products alone, which applies the discount
C25_PopularNoWindowApplies ==
    [][ \A p \in CatalogProcs :
          (LoopPass(p) /\ HasDiscount(loc[p].doc)
             /\ MarkedActive(loc[p].doc.val.discount)
             /\ NoWindow(loc[p].doc.val.discount)
             /\ loc[p].result.val[loc[p].i].val.price.kind = "int")
            => (~PassFailed(p)
                /\ Appended(p).val.discounted_price
                     = Reduced(Appended(p).val.price,
                               loc[p].doc.val.discount.val.percentage))
      ]_vars

\* C26 for what a caller sees: a response served from the cache never has a
\* stored timestamp string as its data
C26_HitDataIsNeverAStamp ==
    (EndedAnalytics /\ IsHit(out.response)) => out.response.body.data.kind # "str"

\* C26: the data key of a query type and region never equals the
\* ':timestamp' companion key of the same query type and another region, so
\* a cache hit never returns a stored timestamp string as its data.
C26_DataKeyIsNoTimestampKey ==
    /\ \A a, b \in KeyedRequests :
         a.op = b.op => a.key # timestamp_key(b.key)
    /\ C26_HitDataIsNeverAStamp

\* no request for key k is between its first cache write and its return
NoWriteInProgress(k) ==
    \A p \in Procs : ~(pc[p] \in CacheWrites /\ loc[p].cache_key = k)

\* C27: whenever no miss-path write for a key is in progress and the data
\* entry and its ':timestamp' companion both exist, the two were written by
\* the same request, whatever the interleaving of the misses for that key.
C27_EntriesFromOneRequest ==
    \A k \in DOMAIN cache :
        ( /\ timestamp_key(k) \in DOMAIN cache
          /\ NoWriteInProgress(k)
          /\ setter[k].for = k
          /\ setter[timestamp_key(k)].for = k )
        => setter[k].by = setter[timestamp_key(k)].by

\* C28: every entry in the cache carries an expiry at every state, between
\* the steps of set_value and after a request that failed partway through
\* set_value as well, so no entry stays in the cache forever.
C28_EveryEntryExpires ==
    \A k \in DOMAIN cache : cache[k].exp # NoExpiry

\* C28 without the states set_value passes through: an entry without an
\* expiry is one that a request is about to give one to
C28_NoEntryLeftWithoutExpiry ==
    \A k \in DOMAIN cache :
        cache[k].exp = NoExpiry =>
            \E p \in Procs :
                \/ pc[p] = "set_value:expire" /\ loc[p].cache_key = k
                \/ pc[p] = "set_value_timestamp:expire" /\ timestamp_key(loc[p].cache_key) = k

\* handler p takes a step of an invalidation
ClearStep(p) == loc[p].op \in Invalidations /\ pc[p] # "idle" /\ pc'[p] # pc[p]

\* the entries of the endpoints other than op: data and timestamp companions
EntriesOfOthers(c, op) == { k \in DOMAIN c : k[1] # prefix(op)[1] }

\* C29: invalidating the cache of one query type leaves every entry of the
\* other two query types as it is: data entries and timestamp companions keep
\* their values and their TTLs.
C29_OtherTypesUntouched ==
    [][ \A p \in Procs :
          ClearStep(p) =>
            \A k \in EntriesOfOthers(cache, cleared(loc[p].op)) :
                k \in DOMAIN cache' /\ cache'[k] = cache[k]
      ]_vars

\* the popular-products cache has been invalidated: its entries are gone and
\* the six entries of the other two query types are there with their expiry
C29_Witness ==
    /\ Ended
    /\ out.op = "clear_popular_cache"
    /\ IsCleared(out.response)
    /\ started = 1
    /\ Cardinality(out.deleted) = 3
    /\ client_keys(cache, <<"popular_products">>) = {}
    /\ Cardinality(DOMAIN cache) = 6
    /\ \A k \in DOMAIN cache : cache[k].exp = 2592000

\* C30: a miss whose origin query returns no rows still writes the empty list
\* and its timestamp to the cache, and the next request for that endpoint and
\* region while the entry is in the cache (unless one of its cache calls
\* raises) is answered from the cache with the empty list as data, with no
\* origin query, no document lookup and no cache write of its own.
C30_EmptyResultIsCached ==
    LET k == cache_key(seq.op, seq.region)
    IN  /\ (seq.stage = 2 /\ seq.data = PyList(<<>>)) =>
              /\ client_get(cache, k) = json_dumps(PyList(<<>>))
              /\ timestamp_key(k) \in DOMAIN cache
              /\ (Ended /\ out.p = seq.p) => out.sets = {k, timestamp_key(k)}
        /\ (seq.stage = 4 /\ seq.data = PyList(<<>>) /\ out.response.status = 200) =>
              /\ IsHit(out.response)
              /\ out.response.body.data = PyList(<<>>)
              /\ out.sets = {} /\ out.expires = {} /\ out.lookups = <<>>

\* the ranking of a region without sales has been cached as the empty list
\* and the request after it has been answered with it from the cache
C30_Witness ==
    /\ seq.stage = 4
    /\ seq.data = PyList(<<>>)
    /\ out.op = "get_store_sales_ranking"
    /\ IsHit(out.response)
    /\ out.response.body.data = PyList(<<>>)
    /\ client_get(cache, out.cache_key) = json_dumps(PyList(<<>>))

====
